---------------------------- MODULE Spec2Model ----------------------------
(***************************************************************************)
(* The opcode graph of the JSON encoder (encode_opcode.go): the opcode     *)
(* node, the graph constructors, and the transformations copyOpcode,       *)
(* decOpcodeIndex, totalLength, dump and linkPrevToNextField.              *)
(*                                                                         *)
(* Nodes live in a heap, a sequence of opcode records; a pointer is the    *)
(* position of a node in the heap and Nil (0) is the nil pointer.  Slot    *)
(* offsets are byte offsets (uintptr), multiples of uintptrSize.           *)
(***************************************************************************)
EXTENDS Integers, Sequences, FiniteSets, TLC

(* ------------------------------ bounds -------------------------------- *)

\* Nodes the constructors may allocate in one compile.
MaxNodes == 6
\* Largest value of the compile context's slot counter.
MaxPtrIndex == 5
\* Nodes of a graph that is cloned, re-indexed, spliced.
MaxCloneNodes == 5
MaxReindexNodes == 4
MaxSpliceNodes == 8
\* Containers (slices, arrays, maps) of the type one compile is given.
MaxContainers == 1
\* Calls of copyOpcode, decOpcodeIndex and linkPrevToNextField on one heap.
MaxCopies == 1
MaxReindexes == 2
MaxSplices == 1
\* Modelled width of uintptr in bits (TLC's integers are 32 bits wide).
UintptrBits == 10

(* ----------------------------- constants ------------------------------ *)

Nil == 0

uintptrSize == 8

UintptrMod == 2 ^ UintptrBits

\* uintptr subtraction, wrapping around at the word size
USub(a, b) == (a - b + UintptrMod) % UintptrMod

opcodeOffset(idx) == (idx * uintptrSize) % UintptrMod

(* ---------------------- operation kinds (opType) ---------------------- *)

\* The code type of an operation: which of the walks' cases it takes.
codeType(op) ==
    CASE op = "opSliceHead" -> "codeSliceHead"
      [] op = "opSliceElem" -> "codeSliceElem"
      [] op = "opArrayHead" -> "codeArrayHead"
      [] op = "opArrayElem" -> "codeArrayElem"
      [] op \in {"opMapHead", "opMapHeadLoad"} -> "codeMapHead"
      [] op = "opMapKey" -> "codeMapKey"
      [] op = "opMapValue" -> "codeMapValue"
      [] op = "opMapEnd" -> "codeMapEnd"
      [] op = "opStructField" -> "codeStructField"
      [] op = "opStructFieldRecursive" -> "codeStructFieldRecursive"
      [] OTHER -> "codeOp"

\* Operations of newOpCode's callers besides the end of a slice and of an
\* array: a plain value, a record field, the end of a record, and the two
\* sub-graph boundaries.
PlainOps ==
    {"opInt", "opStructField", "opStructEnd", "opInterfaceEnd", "opStructFieldRecursiveEnd"}

(* ------------------------------ opcode -------------------------------- *)

\* The zero value of the opcode struct.
ZeroOpcode ==
    [op |-> "opEnd", typ |-> 0, displayIdx |-> 0, key |-> 0, escapedKey |-> 0,
     displayKey |-> 0, isTaggedKey |-> FALSE, anonymousKey |-> FALSE,
     root |-> FALSE, indent |-> 0,
     idx |-> 0, headIdx |-> 0, elemIdx |-> 0, length |-> 0, mapIter |-> 0,
     mapPos |-> 0, offset |-> 0, size |-> 0,
     mapKey |-> Nil, mapValue |-> Nil, elem |-> Nil, end |-> Nil,
     nextField |-> Nil, next |-> Nil, jmp |-> Nil]

\* The six links of a node, in the order copy follows them.
Links == <<"mapKey", "mapValue", "elem", "end", "nextField", "next">>

LinkOf(c, l) ==
    CASE l = "mapKey" -> c.mapKey
      [] l = "mapValue" -> c.mapValue
      [] l = "elem" -> c.elem
      [] l = "end" -> c.end
      [] l = "nextField" -> c.nextField
      [] l = "next" -> c.next

(* -------------------------- compile context --------------------------- *)

\* encodeCompileContext: the type being compiled, the root flag, the
\* indent, the display counter and the slot counter.
InitCtx == [typ |-> 1, root |-> TRUE, indent |-> 0, opcodeIndex |-> 0, ptrIndex |-> 0]

\* ctx.incPtrIndex()
incPtrIndex(c) == [c EXCEPT !.ptrIndex = c.ptrIndex + 1]

\* ctx.incIndex(): the caller's step to the next opcode and the next slot
incIndex(c) == [c EXCEPT !.opcodeIndex = c.opcodeIndex + 1, !.ptrIndex = c.ptrIndex + 1]

(* ---------------------------- constructors ---------------------------- *)
(* A constructor takes the heap and the context and returns the heap with  *)
(* the nodes it allocated, the context as it leaves it and the node it     *)
(* returns.                                                                *)

Made(h, c, node) == [heap |-> Append(h, node), ctx |-> c, ret |-> Len(h) + 1]

newOpCodeWithNext(h, c, op, next) ==
    Made(h, c, [ZeroOpcode EXCEPT !.op = op, !.typ = c.typ,
                                  !.displayIdx = c.opcodeIndex, !.indent = c.indent,
                                  !.idx = opcodeOffset(c.ptrIndex), !.next = next])

newEndOp(h, c) == newOpCodeWithNext(h, c, "opEnd", Nil)

\* newOpCode without its terminal node
newOpCodeWithoutEnd(h, c, op) == newOpCodeWithNext(h, c, op, Nil)

newOpCode(h, c, op) ==
    LET e == newEndOp(h, c) IN newOpCodeWithNext(e.heap, e.ctx, op, e.ret)

\* newSliceHeaderCode taking the length slot without advancing the counter
newSliceHeaderCodeReusingSlot(h, c) ==
    LET idx == opcodeOffset(c.ptrIndex)
        c1 == incPtrIndex(c)
        elemIdx == opcodeOffset(c1.ptrIndex)
        length == opcodeOffset(c1.ptrIndex)
    IN Made(h, c1, [ZeroOpcode EXCEPT !.op = "opSliceHead", !.displayIdx = c1.opcodeIndex,
                                      !.idx = idx, !.headIdx = idx, !.elemIdx = elemIdx,
                                      !.length = length, !.indent = c1.indent])

newSliceHeaderCode(h, c) ==
    LET idx == opcodeOffset(c.ptrIndex)
        c1 == incPtrIndex(c)
        elemIdx == opcodeOffset(c1.ptrIndex)
        c2 == incPtrIndex(c1)
        length == opcodeOffset(c2.ptrIndex)
    IN Made(h, c2, [ZeroOpcode EXCEPT !.op = "opSliceHead", !.displayIdx = c2.opcodeIndex,
                                      !.idx = idx, !.headIdx = idx, !.elemIdx = elemIdx,
                                      !.length = length, !.indent = c2.indent])

newSliceElemCode(h, c, head, size) ==
    Made(h, c, [ZeroOpcode EXCEPT !.op = "opSliceElem", !.displayIdx = c.opcodeIndex,
                                  !.idx = opcodeOffset(c.ptrIndex), !.headIdx = h[head].idx,
                                  !.elemIdx = h[head].elemIdx, !.length = h[head].length,
                                  !.indent = c.indent, !.size = size])

newArrayHeaderCode(h, c, alen) ==
    LET idx == opcodeOffset(c.ptrIndex)
        c1 == incPtrIndex(c)
        elemIdx == opcodeOffset(c1.ptrIndex)
    IN Made(h, c1, [ZeroOpcode EXCEPT !.op = "opArrayHead", !.displayIdx = c1.opcodeIndex,
                                      !.idx = idx, !.headIdx = idx, !.elemIdx = elemIdx,
                                      !.indent = c1.indent, !.length = alen % UintptrMod])

newArrayElemCode(h, c, head, length, size) ==
    Made(h, c, [ZeroOpcode EXCEPT !.op = "opArrayElem", !.displayIdx = c.opcodeIndex,
                                  !.idx = opcodeOffset(c.ptrIndex),
                                  !.elemIdx = h[head].elemIdx, !.headIdx = h[head].headIdx,
                                  !.length = length % UintptrMod, !.size = size])

newMapHeaderCode(h, c, withLoad) ==
    LET op == IF withLoad THEN "opMapHeadLoad" ELSE "opMapHead"
        idx == opcodeOffset(c.ptrIndex)
        c1 == incPtrIndex(c)
        elemIdx == opcodeOffset(c1.ptrIndex)
        c2 == incPtrIndex(c1)
        length == opcodeOffset(c2.ptrIndex)
        c3 == incPtrIndex(c2)
        mapIter == opcodeOffset(c3.ptrIndex)
    IN Made(h, c3, [ZeroOpcode EXCEPT !.op = op, !.typ = c3.typ,
                                      !.displayIdx = c3.opcodeIndex, !.idx = idx,
                                      !.elemIdx = elemIdx, !.length = length,
                                      !.mapIter = mapIter, !.indent = c3.indent])

newMapKeyCode(h, c, head) ==
    Made(h, c, [ZeroOpcode EXCEPT !.op = "opMapKey", !.displayIdx = c.opcodeIndex,
                                  !.idx = opcodeOffset(c.ptrIndex),
                                  !.elemIdx = h[head].elemIdx, !.length = h[head].length,
                                  !.mapIter = h[head].mapIter, !.indent = c.indent])

newMapValueCode(h, c, head) ==
    Made(h, c, [ZeroOpcode EXCEPT !.op = "opMapValue", !.displayIdx = c.opcodeIndex,
                                  !.idx = opcodeOffset(c.ptrIndex),
                                  !.elemIdx = h[head].elemIdx, !.length = h[head].length,
                                  !.mapIter = h[head].mapIter, !.indent = c.indent])

newMapEndCode(h, c, head) ==
    LET mapPos == opcodeOffset(c.ptrIndex)
        c1 == incPtrIndex(c)
        idx == opcodeOffset(c1.ptrIndex)
        e == newEndOp(h, c1)
    IN Made(e.heap, e.ctx,
            [ZeroOpcode EXCEPT !.op = "opMapEnd", !.displayIdx = c1.opcodeIndex,
                               !.idx = idx, !.length = h[head].length,
                               !.mapPos = mapPos, !.indent = c1.indent, !.next = e.ret])

newInterfaceCode(h, c) ==
    LET e == newEndOp(h, c)
    IN Made(e.heap, e.ctx,
            [ZeroOpcode EXCEPT !.op = "opInterface", !.typ = c.typ,
                               !.displayIdx = c.opcodeIndex,
                               !.idx = opcodeOffset(c.ptrIndex), !.indent = c.indent,
                               !.root = c.root, !.next = e.ret])

newRecursiveCode(h, c, jmp) ==
    LET e == newEndOp(h, c)
    IN Made(e.heap, e.ctx,
            [ZeroOpcode EXCEPT !.op = "opStructFieldRecursive", !.typ = c.typ,
                               !.displayIdx = c.opcodeIndex,
                               !.idx = opcodeOffset(c.ptrIndex), !.indent = c.indent,
                               !.next = e.ret, !.jmp = jmp])

(* ------------------------------- walks -------------------------------- *)

\* The successor the walks follow: end for an array element, a slice
\* element and a map key, next for every other node.
Fallthrough(h, c) ==
    IF codeType(h[c].op) \in {"codeArrayElem", "codeSliceElem", "codeMapKey"}
    THEN h[c].end
    ELSE h[c].next

\* The nodes a walk from c visits, the terminal node last; <<..., Nil>> when
\* the walk meets a nil link or has not ended after n steps (the loops of
\* the code do not return on such a graph).
RECURSIVE Path(_, _, _)
Path(h, c, n) ==
    IF c = Nil \/ n = 0 THEN <<Nil>>
    ELSE IF h[c].op = "opEnd" THEN <<c>>
    ELSE <<c>> \o Path(h, Fallthrough(h, c), n - 1)

Terminates(h, c) ==
    /\ c \in 1..Len(h)
    /\ LET p == Path(h, c, Len(h)) IN p[Len(p)] # Nil

\* func (c *opcode) totalLength() int
RECURSIVE totalLengthLoop(_, _, _)
totalLengthLoop(h, code, idx) ==
    IF h[code].op = "opEnd" THEN idx
    ELSE LET i == h[code].idx \div uintptrSize
         IN IF h[code].op \in {"opInterfaceEnd", "opStructFieldRecursiveEnd"}
            THEN i
            ELSE totalLengthLoop(h, Fallthrough(h, code), i)

\* totalLength as it would be if it read the slot of the first node only
totalLengthOfHead(h, c) ==
    (IF h[c].op = "opEnd" THEN 0 ELSE h[c].idx \div uintptrSize) + 2

totalLength(h, c) == totalLengthLoop(h, c, 0) + 2

\* decOpcodeIndex as it would be without the test for the array kinds
decNodeEveryLength(n) ==
    [n EXCEPT !.displayIdx = @ - 1,
              !.idx = USub(@, uintptrSize),
              !.headIdx = IF @ > 0 THEN USub(@, uintptrSize) ELSE @,
              !.elemIdx = IF @ > 0 THEN USub(@, uintptrSize) ELSE @,
              !.mapIter = IF @ > 0 THEN USub(@, uintptrSize) ELSE @,
              !.length = IF @ > 0 THEN USub(@, uintptrSize) ELSE @]

\* decOpcodeIndex as it would be with idx left as it is
decNodeKeepingIdx(n) ==
    [n EXCEPT !.displayIdx = @ - 1,
              !.headIdx = IF @ > 0 THEN USub(@, uintptrSize) ELSE @,
              !.elemIdx = IF @ > 0 THEN USub(@, uintptrSize) ELSE @,
              !.mapIter = IF @ > 0 THEN USub(@, uintptrSize) ELSE @,
              !.length = IF @ > 0 /\ codeType(n.op) # "codeArrayHead"
                                  /\ codeType(n.op) # "codeArrayElem"
                         THEN USub(@, uintptrSize) ELSE @]

\* One node of decOpcodeIndex's loop.
decNode(n) ==
    [n EXCEPT !.displayIdx = @ - 1,
              !.idx = USub(@, uintptrSize),
              !.headIdx = IF @ > 0 THEN USub(@, uintptrSize) ELSE @,
              !.elemIdx = IF @ > 0 THEN USub(@, uintptrSize) ELSE @,
              !.mapIter = IF @ > 0 THEN USub(@, uintptrSize) ELSE @,
              !.length = IF @ > 0 /\ codeType(n.op) # "codeArrayHead"
                                  /\ codeType(n.op) # "codeArrayElem"
                         THEN USub(@, uintptrSize) ELSE @]

\* func (c *opcode) decOpcodeIndex(): the heap after the call
RECURSIVE decOpcodeIndex(_, _)
decOpcodeIndex(h, code) ==
    IF h[code].op = "opEnd" THEN h
    ELSE LET h1 == [h EXCEPT ![code] = decNode(h[code])]
         IN decOpcodeIndex(h1, Fallthrough(h1, code))

(* -------------------------------- dump -------------------------------- *)
(* A line of the dump is the tuple of the values its format prints.        *)

dumpHead(code) ==
    LET length == IF codeType(code.op) = "codeArrayHead" THEN code.length
                  ELSE code.length \div uintptrSize
    IN <<code.displayIdx, code.indent, code.op, "idx", code.idx \div uintptrSize,
         "headIdx", code.headIdx \div uintptrSize, "elemIdx", code.elemIdx \div uintptrSize,
         "length", length>>

dumpMapHead(code) ==
    <<code.displayIdx, code.indent, code.op, "idx", code.idx \div uintptrSize,
      "headIdx", code.headIdx \div uintptrSize, "elemIdx", code.elemIdx \div uintptrSize,
      "length", code.length \div uintptrSize, "mapIter", code.mapIter \div uintptrSize>>

dumpMapEnd(code) ==
    <<code.displayIdx, code.indent, code.op, "idx", code.idx \div uintptrSize,
      "mapPos", code.mapPos \div uintptrSize, "length", code.length \div uintptrSize>>

dumpElem(code) ==
    LET length == IF codeType(code.op) = "codeArrayElem" THEN code.length
                  ELSE code.length \div uintptrSize
    IN <<code.displayIdx, code.indent, code.op, "idx", code.idx \div uintptrSize,
         "headIdx", code.headIdx \div uintptrSize, "elemIdx", code.elemIdx \div uintptrSize,
         "length", length, "size", code.size>>

dumpField(code) ==
    <<code.displayIdx, code.indent, code.op, "idx", code.idx \div uintptrSize,
      "key", code.displayKey, "offset", code.offset,
      "headIdx", code.headIdx \div uintptrSize>>

dumpKey(code) ==
    <<code.displayIdx, code.indent, code.op, "idx", code.idx \div uintptrSize,
      "elemIdx", code.elemIdx \div uintptrSize, "length", code.length \div uintptrSize,
      "mapIter", code.mapIter \div uintptrSize>>

dumpValue(code) ==
    <<code.displayIdx, code.indent, code.op, "idx", code.idx \div uintptrSize,
      "mapIter", code.mapIter \div uintptrSize>>

dumpDefault(code) ==
    <<code.displayIdx, code.indent, code.op, "idx", code.idx \div uintptrSize>>

\* func (c *opcode) dump() string: the lines, in order
RECURSIVE dump(_, _)
dump(h, c) ==
    IF h[c].op = "opEnd" THEN <<>>
    ELSE LET code == h[c]
             t == codeType(code.op)
         IN CASE t = "codeSliceHead" -> <<dumpHead(code)>> \o dump(h, code.next)
              [] t = "codeMapHead" -> <<dumpMapHead(code)>> \o dump(h, code.next)
              [] t \in {"codeArrayElem", "codeSliceElem"} ->
                     <<dumpElem(code)>> \o dump(h, code.end)
              [] t = "codeMapKey" -> <<dumpKey(code)>> \o dump(h, code.end)
              [] t = "codeMapValue" -> <<dumpValue(code)>> \o dump(h, code.next)
              [] t = "codeMapEnd" -> <<dumpMapEnd(code)>> \o dump(h, code.next)
              [] t = "codeStructField" -> <<dumpField(code)>> \o dump(h, code.next)
              [] OTHER -> <<dumpDefault(code)>> \o dump(h, code.next)

(* -------------------------------- copy -------------------------------- *)
(* copy threads the heap and codeMap through its six recursive calls.      *)
(* codeMap is a sequence over the nodes of the heap copyOpcode was called  *)
(* on: the copy of node a at position a, Nil where the map has no entry.   *)

\* copy as it would be with the length field left out of the literal
copiedWithoutLength(c) ==
    [ZeroOpcode EXCEPT !.op = c.op, !.typ = c.typ, !.displayIdx = c.displayIdx,
                       !.key = c.key, !.escapedKey = c.escapedKey,
                       !.displayKey = c.displayKey, !.isTaggedKey = c.isTaggedKey,
                       !.anonymousKey = c.anonymousKey, !.root = c.root,
                       !.indent = c.indent, !.idx = c.idx, !.headIdx = c.headIdx,
                       !.elemIdx = c.elemIdx, !.mapIter = c.mapIter, !.mapPos = c.mapPos,
                       !.offset = c.offset, !.size = c.size]

\* The node copy allocates: every field but the links and jmp.
copied(c) ==
    [ZeroOpcode EXCEPT !.op = c.op, !.typ = c.typ, !.displayIdx = c.displayIdx,
                       !.key = c.key, !.escapedKey = c.escapedKey,
                       !.displayKey = c.displayKey, !.isTaggedKey = c.isTaggedKey,
                       !.anonymousKey = c.anonymousKey, !.root = c.root,
                       !.indent = c.indent, !.idx = c.idx, !.headIdx = c.headIdx,
                       !.elemIdx = c.elemIdx, !.length = c.length,
                       !.mapIter = c.mapIter, !.mapPos = c.mapPos,
                       !.offset = c.offset, !.size = c.size]

\* copy as it would be with the end link assigned, not copied
RECURSIVE copySharingEnd(_, _, _)
copySharingEnd(h, codeMap, c) ==
    IF c = Nil THEN [heap |-> h, codeMap |-> codeMap, ret |-> Nil]
    ELSE IF codeMap[c] # Nil THEN [heap |-> h, codeMap |-> codeMap, ret |-> codeMap[c]]
    ELSE LET new == Len(h) + 1
             h0 == Append(h, copied(h[c]))
             m0 == [codeMap EXCEPT ![c] = new]
             r1 == copySharingEnd(h0, m0, h[c].mapKey)
             h1 == [r1.heap EXCEPT ![new].mapKey = r1.ret]
             r2 == copySharingEnd(h1, r1.codeMap, h[c].mapValue)
             h2 == [r2.heap EXCEPT ![new].mapValue = r2.ret]
             r3 == copySharingEnd(h2, r2.codeMap, h[c].elem)
             h3 == [r3.heap EXCEPT ![new].elem = r3.ret]
             h4 == [h3 EXCEPT ![new].end = h[c].end]
             r5 == copySharingEnd(h4, r3.codeMap, h[c].nextField)
             h5 == [r5.heap EXCEPT ![new].nextField = r5.ret]
             r6 == copySharingEnd(h5, r5.codeMap, h[c].next)
             h6 == [r6.heap EXCEPT ![new].next = r6.ret]
             h7 == [h6 EXCEPT ![new].jmp = h[c].jmp]
         IN [heap |-> h7, codeMap |-> r6.codeMap, ret |-> new]

\* func (c *opcode) copy(codeMap map[uintptr]*opcode) *opcode
RECURSIVE copy(_, _, _)
copy(h, codeMap, c) ==
    IF c = Nil THEN [heap |-> h, codeMap |-> codeMap, ret |-> Nil]
    ELSE IF codeMap[c] # Nil THEN [heap |-> h, codeMap |-> codeMap, ret |-> codeMap[c]]
    ELSE LET new == Len(h) + 1
             h0 == Append(h, copied(h[c]))
             m0 == [codeMap EXCEPT ![c] = new]
             r1 == copy(h0, m0, h[c].mapKey)
             h1 == [r1.heap EXCEPT ![new].mapKey = r1.ret]
             r2 == copy(h1, r1.codeMap, h[c].mapValue)
             h2 == [r2.heap EXCEPT ![new].mapValue = r2.ret]
             r3 == copy(h2, r2.codeMap, h[c].elem)
             h3 == [r3.heap EXCEPT ![new].elem = r3.ret]
             r4 == copy(h3, r3.codeMap, h[c].end)
             h4 == [r4.heap EXCEPT ![new].end = r4.ret]
             r5 == copy(h4, r4.codeMap, h[c].nextField)
             h5 == [r5.heap EXCEPT ![new].nextField = r5.ret]
             r6 == copy(h5, r5.codeMap, h[c].next)
             h6 == [r6.heap EXCEPT ![new].next = r6.ret]
             h7 == [h6 EXCEPT ![new].jmp = h[c].jmp]
         IN [heap |-> h7, codeMap |-> r6.codeMap, ret |-> new]

\* func copyOpcode(code *opcode) *opcode
copyOpcode(h, code) == copy(h, [a \in 1..Len(h) |-> Nil], code)

(* ------------------------------- splice ------------------------------- *)

\* linkPrevToNextField as it would be if it rewrote end, not next
RECURSIVE linkLoopSettingEnd(_, _, _)
linkLoopSettingEnd(h, code, fcode) ==
    LET nextCode == Fallthrough(h, code)
    IN IF nextCode = fcode THEN [h EXCEPT ![code].end = h[fcode].next]
       ELSE IF h[nextCode].op = "opEnd" THEN h
       ELSE linkLoopSettingEnd(h, nextCode, fcode)

\* The loop of linkPrevToNextField from node code: the heap it leaves.
RECURSIVE linkLoop(_, _, _)
linkLoop(h, code, fcode) ==
    LET nextCode == Fallthrough(h, code)
    IN IF nextCode = fcode THEN [h EXCEPT ![code].next = h[fcode].next]
       ELSE IF h[nextCode].op = "opEnd" THEN h
       ELSE linkLoop(h, nextCode, fcode)

\* func linkPrevToNextField(prev, cur *opcode)
linkPrevToNextField(h, prev, cur) ==
    linkLoop([h EXCEPT ![prev].nextField = h[cur].nextField], prev, cur)

\* The loop returns: it finds cur or the terminal node before a nil link.
RECURSIVE LinkReturns(_, _, _, _)
LinkReturns(h, code, fcode, n) ==
    LET nextCode == Fallthrough(h, code)
    IN \/ nextCode = fcode
       \/ /\ nextCode # Nil
          /\ \/ h[nextCode].op = "opEnd"
             \/ n > 0 /\ LinkReturns(h, nextCode, fcode, n - 1)

(* ------------------------------- state -------------------------------- *)

VARIABLES
    heap,    \* the opcode nodes allocated so far
    ctx,     \* the compile context
    pc,      \* "build": constructors run; "wire": links are set; "run": transformations
    cursor,  \* the last link set (links are set in one fixed order)
    last,    \* the last call: its name, arguments and result
    pre,     \* the context that call started from, and for a transformation the heap
    nOps     \* the calls of a transformation so far

vars == <<heap, ctx, pc, cursor, last, pre, nOps>>

Nodes == 1..Len(heap)

Call(kind, a, b, ret, map) == [kind |-> kind, a |-> a, b |-> b, ret |-> ret, map |-> map]

Init ==
    /\ heap = <<>>
    /\ ctx = InitCtx
    /\ pc = "build"
    /\ cursor = 0
    /\ last = Call("none", Nil, Nil, Nil, <<>>)
    /\ pre = [heap |-> <<>>, ctx |-> InitCtx]
    /\ nOps = 0

(* ------------------------ the compiler's calls ------------------------ *)

\* A constructor call with result r.
Construct(kind, a, r) ==
    /\ pc = "build"
    /\ r.ctx.ptrIndex <= MaxPtrIndex
    /\ heap' = r.heap
    /\ ctx' = r.ctx
    /\ last' = Call(kind, a, Nil, r.ret, <<>>)
    /\ pre' = [heap |-> <<>>, ctx |-> ctx]
    /\ UNCHANGED <<pc, cursor, nOps>>

HeadsOf(ops) == {n \in Nodes : heap[n].op \in ops}

MapHeads == HeadsOf({"opMapHead", "opMapHeadLoad"})

\* The compiler makes one header for each container of the type, and for
\* each header one node of each kind the container owns.
MoreContainers ==
    Cardinality(HeadsOf({"opSliceHead", "opArrayHead", "opMapHead", "opMapHeadLoad"}))
        < MaxContainers

Lacks(head, op) == \A n \in Nodes : n > head => heap[n].op # op

\* Element sizes and array lengths the type layer hands to the constructors.
ElemSizes == {8}
ArrayLens == {3}
Subroutines == {1, 2}

NewOpCode(op) == Construct("newOpCode", Nil, newOpCode(heap, ctx, op))

\* newOpCode for the end of a slice or an array whose header was made
NewEndCode(headOp, op) ==
    \E head \in HeadsOf({headOp}) : Lacks(head, op) /\ NewOpCode(op)

NewSliceHeaderCode ==
    /\ MoreContainers
    /\ Construct("newSliceHeaderCode", Nil, newSliceHeaderCode(heap, ctx))

NewSliceElemCode ==
    \E head \in HeadsOf({"opSliceHead"}), size \in ElemSizes :
        /\ Lacks(head, "opSliceElem")
        /\ Construct("newSliceElemCode", head, newSliceElemCode(heap, ctx, head, size))

NewArrayHeaderCode ==
    \E alen \in ArrayLens :
        /\ MoreContainers
        /\ Construct("newArrayHeaderCode", Nil, newArrayHeaderCode(heap, ctx, alen))

NewArrayElemCode ==
    \E head \in HeadsOf({"opArrayHead"}), size \in ElemSizes :
        /\ Lacks(head, "opArrayElem")
        /\ Construct("newArrayElemCode", head,
                     newArrayElemCode(heap, ctx, head, heap[head].length, size))

NewMapHeaderCode ==
    \E withLoad \in BOOLEAN :
        /\ MoreContainers
        /\ Construct("newMapHeaderCode", Nil, newMapHeaderCode(heap, ctx, withLoad))

NewMapKeyCode ==
    \E head \in MapHeads :
        /\ Lacks(head, "opMapKey")
        /\ Construct("newMapKeyCode", head, newMapKeyCode(heap, ctx, head))

NewMapValueCode ==
    \E head \in MapHeads :
        /\ Lacks(head, "opMapValue")
        /\ Construct("newMapValueCode", head, newMapValueCode(heap, ctx, head))

NewMapEndCode ==
    \E head \in MapHeads :
        /\ Lacks(head, "opMapEnd")
        /\ Construct("newMapEndCode", head, newMapEndCode(heap, ctx, head))

NewInterfaceCode == Construct("newInterfaceCode", Nil, newInterfaceCode(heap, ctx))

NewRecursiveCode ==
    \E jmp \in Subroutines :
        Construct("newRecursiveCode", Nil, newRecursiveCode(heap, ctx, jmp))

\* The caller's ctx.incIndex() between two constructor calls.
IncIndex ==
    /\ pc = "build"
    /\ ctx.ptrIndex < MaxPtrIndex
    /\ ctx' = incIndex(ctx)
    /\ last' = Call("incIndex", Nil, Nil, Nil, <<>>)
    /\ pre' = [heap |-> <<>>, ctx |-> ctx]
    /\ UNCHANGED <<heap, pc, cursor, nOps>>

(* ------------------------------- wiring ------------------------------- *)
(* The compiler assembles a graph by assigning the links of the nodes the  *)
(* constructors returned.  Each link holds what its declaration says:      *)
(* mapKey a map key, mapValue a map value, elem an array or slice element, *)
(* end the end of an array, slice or map, nextField the next record field  *)
(* (or the record's end), next the next opcode.  The edge a walk follows   *)
(* leads to a node allocated later, so every walk ends; next of an element *)
(* or key node is the loop's back edge.  The assignments commute, so they  *)
(* are made in one fixed order of (node, link).                            *)

LinkRank(l) == CHOOSE i \in 1..Len(Links) : Links[i] = l

WirePos(n, l) == (n - 1) * Len(Links) + LinkRank(l)

IsElemKind(op) == codeType(op) \in {"codeArrayElem", "codeSliceElem", "codeMapKey"}

EndOps == {"opSliceEnd", "opArrayEnd", "opMapEnd"}

FieldOps == {"opStructField", "opStructEnd"}

MayLink(h, n, l, m) ==
    LET a == h[n].op
        b == h[m].op
    IN CASE l = "mapKey" -> codeType(a) = "codeMapHead" /\ b = "opMapKey"
         [] l = "mapValue" -> codeType(a) = "codeMapHead" /\ b = "opMapValue"
         [] l = "elem" -> \/ a = "opSliceHead" /\ b = "opSliceElem"
                          \/ a = "opArrayHead" /\ b = "opArrayElem"
         [] l = "end" -> /\ codeType(a) \in {"codeSliceHead", "codeArrayHead", "codeMapHead",
                                             "codeSliceElem", "codeArrayElem", "codeMapKey",
                                             "codeMapValue"}
                         /\ b \in EndOps /\ m > n
         [] l = "nextField" -> a = "opStructField" /\ b \in FieldOps /\ m > n
         [] l = "next" -> /\ a # "opEnd" /\ b # "opEnd" /\ m # n
                          /\ IsElemKind(a) \/ m > n

Wire(n, l, m) ==
    /\ pc \in {"build", "wire"}
    /\ WirePos(n, l) > cursor
    /\ MayLink(heap, n, l, m)
    /\ heap' = [heap EXCEPT ![n] =
                   CASE l = "mapKey" -> [@ EXCEPT !.mapKey = m]
                     [] l = "mapValue" -> [@ EXCEPT !.mapValue = m]
                     [] l = "elem" -> [@ EXCEPT !.elem = m]
                     [] l = "end" -> [@ EXCEPT !.end = m]
                     [] l = "nextField" -> [@ EXCEPT !.nextField = m]
                     [] l = "next" -> [@ EXCEPT !.next = m]]
    /\ pc' = "wire"
    /\ cursor' = WirePos(n, l)
    /\ last' = Call("wire", n, m, Nil, <<>>)
    /\ pre' = [heap |-> <<>>, ctx |-> ctx]
    /\ UNCHANGED <<ctx, nOps>>

(* --------------------------- transformations -------------------------- *)

Transform(kind, a, b, ret, map, h) ==
    /\ heap' = h
    /\ pc' = "run"
    /\ nOps' = nOps + 1
    /\ last' = Call(kind, a, b, ret, map)
    /\ pre' = [heap |-> heap, ctx |-> ctx]
    /\ UNCHANGED <<ctx, cursor>>

\* copyOpcode(code) on a graph: the clone is allocated in the heap
CopyOpcode(code) ==
    /\ nOps < MaxCopies
    /\ LET r == copyOpcode(heap, code)
       IN Transform("copyOpcode", code, Nil, r.ret, r.codeMap, r.heap)

\* code.decOpcodeIndex() on a graph whose walk ends
DecOpcodeIndex(code) ==
    /\ nOps < MaxReindexes
    /\ Terminates(heap, code)
    /\ Transform("decOpcodeIndex", code, Nil, Nil, <<>>, decOpcodeIndex(heap, code))

\* linkPrevToNextField(prev, cur) on two fields of one chain
LinkPrevToNextField(prev, cur) ==
    /\ nOps < MaxSplices
    /\ heap[prev].op = "opStructField"
    /\ heap[cur].op = "opStructField"
    /\ prev # cur
    /\ LinkReturns(heap, prev, cur, Len(heap))
    /\ Transform("linkPrevToNextField", prev, cur, Nil, <<>>,
                 linkPrevToNextField(heap, prev, cur))

(* --------------------------- specifications --------------------------- *)

\* One compile: every constructor, and the caller's incIndex between them.
Next ==
    /\ \/ \E op \in PlainOps : NewOpCode(op)
       \/ NewEndCode("opSliceHead", "opSliceEnd")
       \/ NewEndCode("opArrayHead", "opArrayEnd")
       \/ NewSliceHeaderCode
       \/ NewSliceElemCode
       \/ NewArrayHeaderCode
       \/ NewArrayElemCode
       \/ NewMapHeaderCode
       \/ NewMapKeyCode
       \/ NewMapValueCode
       \/ NewMapEndCode
       \/ NewInterfaceCode
       \/ NewRecursiveCode
       \/ IncIndex
    /\ Len(heap') <= MaxNodes

Spec == Init /\ [][Next]_vars

\* Graphs of slices, maps, record fields and recursive calls, and their clones.
NextClone ==
    \/ /\ \/ NewOpCode("opStructField")
          \/ NewEndCode("opSliceHead", "opSliceEnd")
          \/ NewSliceHeaderCode
          \/ NewSliceElemCode
          \/ NewMapHeaderCode
          \/ NewMapKeyCode
          \/ NewMapValueCode
          \/ NewMapEndCode
          \/ NewRecursiveCode
       /\ Len(heap') <= MaxCloneNodes
    \/ \E n \in Nodes, m \in Nodes, i \in 1..Len(Links) : Wire(n, Links[i], m)
    \/ \E c \in Nodes : CopyOpcode(c)

SpecClone == Init /\ [][NextClone]_vars

\* Graphs of slices, arrays and maps, re-indexed.
NextReindex ==
    \/ /\ \/ \E op \in {"opInt", "opInterfaceEnd"} : NewOpCode(op)
          \/ NewEndCode("opSliceHead", "opSliceEnd")
          \/ NewEndCode("opArrayHead", "opArrayEnd")
          \/ NewSliceHeaderCode
          \/ NewSliceElemCode
          \/ NewArrayHeaderCode
          \/ NewArrayElemCode
          \/ NewMapHeaderCode
          \/ NewMapKeyCode
          \/ NewMapValueCode
          \/ NewMapEndCode
          \/ IncIndex
       /\ Len(heap') <= MaxReindexNodes
    \/ \E n \in Nodes, m \in Nodes, l \in {"end", "next"} : Wire(n, l, m)
    \/ \E c \in Nodes : DecOpcodeIndex(c)

SpecReindex == Init /\ [][NextReindex]_vars

\* Chains of record fields and their values, spliced.
NextSplice ==
    \/ /\ \/ NewOpCode("opStructField")
          \/ NewEndCode("opSliceHead", "opSliceEnd")
          \/ NewSliceHeaderCode
          \/ NewSliceElemCode
       /\ Len(heap') <= MaxSpliceNodes
    \/ \E n \in Nodes, m \in Nodes, l \in {"end", "nextField", "next"} : Wire(n, l, m)
    \/ \E prev \in Nodes, cur \in Nodes : LinkPrevToNextField(prev, cur)

SpecSplice == Init /\ [][NextSplice]_vars

(* ------------------------------- claims ------------------------------- *)

\* The nodes reachable from the nodes of S through the six links.
RECURSIVE Reach(_, _)
Reach(h, S) ==
    LET T == S \cup ({LinkOf(h[n], Links[i]) : n \in S, i \in 1..Len(Links)} \ {Nil})
    IN IF T = S THEN S ELSE Reach(h, T)

Copied == last.kind = "copyOpcode"

\* The graph copyOpcode was called on, and its clone.
Original == Reach(pre.heap, {last.a})
Clone == Reach(heap, {last.ret})

\* C1. Clone fidelity: after copyOpcode(g) the dump of the clone is the dump
\* of g (wherever g has a dump: its walk reaches the terminal node), and no
\* node reachable from the clone's head through the six links is a node that
\* existed before the call.
C1_CloneFidelity ==
    Copied =>
        /\ Terminates(pre.heap, last.a) =>
               /\ Terminates(heap, last.ret)
               /\ dump(heap, last.ret) = dump(pre.heap, last.a)
        /\ Clone \cap (1..Len(pre.heap)) = {}
        /\ \A n \in 1..Len(pre.heap) : heap[n] = pre.heap[n]

\* A clone of a graph with a dump of three lines or more, in which the next
\* link of an element or key node leads back into the graph.
C1_Witness ==
    /\ Copied
    /\ Terminates(pre.heap, last.a)
    /\ Len(dump(heap, last.ret)) >= 3
    /\ \E n \in Original :
           /\ IsElemKind(pre.heap[n].op)
           /\ pre.heap[n].next # Nil
           /\ n \in Reach(pre.heap, {pre.heap[n].next})

\* C2. Sharing and cycles: copyOpcode returns, and the codeMap it built maps
\* the nodes reachable from g one to one onto the nodes reachable from the
\* clone, every one of them new; the map commutes with each of the six links
\* (nil stays nil), and jmp of a cloned node is jmp of its original.
C2_CloneIsomorphism ==
    Copied =>
        LET f == last.map
        IN /\ last.ret = f[last.a]
           /\ \A x \in Original : f[x] > Len(pre.heap) /\ f[x] <= Len(heap)
           /\ \A x \in 1..Len(pre.heap) : x \notin Original => f[x] = Nil
           /\ \A x, y \in Original : f[x] = f[y] => x = y
           /\ {f[x] : x \in Original} = Clone
           /\ Len(heap) = Len(pre.heap) + Cardinality(Original)
           /\ \A x \in Original : \A i \in 1..Len(Links) :
                  LET y == LinkOf(pre.heap[x], Links[i])
                  IN LinkOf(heap[f[x]], Links[i]) = IF y = Nil THEN Nil ELSE f[y]
           /\ \A x \in Original : heap[f[x]].jmp = pre.heap[x].jmp

\* A clone of a graph with a cycle in which two links of different nodes
\* lead to one node.
C2_Witness ==
    /\ Copied
    /\ \E x \in Original : x \in Reach(pre.heap, {pre.heap[x].next} \ {Nil})
    /\ \E x, y \in Original, i, j \in 1..Len(Links) :
           /\ x # y
           /\ LinkOf(pre.heap[x], Links[i]) # Nil
           /\ LinkOf(pre.heap[x], Links[i]) = LinkOf(pre.heap[y], Links[j])
           /\ pre.heap[LinkOf(pre.heap[x], Links[i])].op # "opEnd"

(* ------------------------------ re-index ------------------------------ *)

Reindexed == last.kind = "decOpcodeIndex"

\* The nodes a walk from c visits before the terminal node, in order.
Walk(h, c) == LET p == Path(h, c, Len(h)) IN SubSeq(p, 1, Len(p) - 1)

WalkSet(h, c) == {Walk(h, c)[i] : i \in 1..Len(Walk(h, c))}

IsArrayKind(op) == codeType(op) \in {"codeArrayHead", "codeArrayElem"}

HasRegisterLength(op) ==
    codeType(op) \in {"codeSliceHead", "codeSliceElem", "codeMapHead", "codeMapKey",
                      "codeMapValue", "codeMapEnd"}

\* The slot offsets of a node; length counts unless it is an array's count.
Slots(n) ==
    {n.idx, n.headIdx, n.elemIdx, n.mapIter, n.mapPos}
        \cup (IF IsArrayKind(n.op) THEN {} ELSE {n.length})

Shifted(before, after) == before > 0 => after = before - uintptrSize

\* C3. Re-index decrements every slot: after decOpcodeIndex on the head of a
\* graph, every slot offset (idx, headIdx, elemIdx, register-backed length,
\* mapIter, mapPos) of every node of the walk that was nonzero before the
\* call is one uintptr smaller.
C3_EverySlotShifted ==
    Reindexed =>
        \A n \in WalkSet(pre.heap, last.a) :
            LET b == pre.heap[n]
                a == heap[n]
            IN /\ Shifted(b.idx, a.idx)
               /\ Shifted(b.headIdx, a.headIdx)
               /\ Shifted(b.elemIdx, a.elemIdx)
               /\ Shifted(b.mapIter, a.mapIter)
               /\ Shifted(b.mapPos, a.mapPos)
               /\ ~IsArrayKind(b.op) => Shifted(b.length, a.length)

AllIdxPositive(h, c) ==
    LET p == Path(h, c, Len(h)) IN \A i \in 1..Len(p) : h[p[i]].idx >= uintptrSize

\* C4 as stated: for every graph whose nodes all have idx of one uintptr or
\* more, totalLength after decOpcodeIndex is totalLength before it minus 1.
C4_SizeShrinksByOne ==
    (Reindexed /\ AllIdxPositive(pre.heap, last.a)) =>
        totalLength(heap, last.a) = totalLength(pre.heap, last.a) - 1

\* C4, amended: the same for every such graph whose head is not the terminal
\* node; on the terminal node alone decOpcodeIndex changes nothing and
\* totalLength is 2 before and after.
C4_SizeShrinksByOneUnlessTerminal ==
    (Reindexed /\ AllIdxPositive(pre.heap, last.a)) =>
        /\ Terminates(heap, last.a)
        /\ totalLength(heap, last.a) =
               IF pre.heap[last.a].op = "opEnd" THEN 2
               ELSE totalLength(pre.heap, last.a) - 1

\* A legal re-index of a graph of two nodes or more before the terminal one.
C4_Witness ==
    /\ Reindexed
    /\ AllIdxPositive(pre.heap, last.a)
    /\ Len(Walk(pre.heap, last.a)) >= 2
    /\ totalLength(heap, last.a) >= 3

\* The nodes totalLength reads: the walk up to the first polymorphic-end or
\* recursive-field-end node.
RECURSIVE SizeWalk(_, _)
SizeWalk(h, c) ==
    IF h[c].op = "opEnd" THEN {}
    ELSE IF h[c].op \in {"opInterfaceEnd", "opStructFieldRecursiveEnd"} THEN {c}
    ELSE {c} \cup SizeWalk(h, Fallthrough(h, c))

Covers(h, c, S) ==
    \A n \in S : \A s \in Slots(h[n]) : s \div uintptrSize < totalLength(h, c)

\* C7 as stated: totalLength(g) exceeds the index of every slot of every
\* node of g, the nodes after a polymorphic-end or recursive-field-end node
\* included.
C7_SizeCoversGraph ==
    pc # "run" => \A c \in Nodes : Terminates(heap, c) => Covers(heap, c, WalkSet(heap, c))

\* C7, amended: for a graph as assembled from the constructors' nodes and not
\* re-indexed, totalLength(g) exceeds the index of every slot of every node
\* its walk visits up to and including the node where it stops.
C7_SizeCoversItsWalk ==
    pc # "run" => \A c \in Nodes : Terminates(heap, c) => Covers(heap, c, SizeWalk(heap, c))

\* A graph of a header and two more nodes whose size is read: the header's
\* slots lie above its own value slot.
C7_Witness ==
    /\ pc # "run"
    /\ \E c \in Nodes :
           /\ Terminates(heap, c)
           /\ Cardinality(SizeWalk(heap, c)) >= 3
           /\ heap[c].length > heap[c].idx
           /\ ~IsArrayKind(heap[c].op)

\* C10. Literal lengths are not re-indexed: decOpcodeIndex, called any number
\* of times, leaves the length of an array header and an array element as
\* it is, takes one uintptr from the nonzero length of every slice and map
\* node of its walk, and changes no link, no jmp, no size and no operation
\* of any node; a node off the walk is not changed at all.
C10_LiteralLengthKept ==
    Reindexed =>
        /\ Len(heap) = Len(pre.heap)
        /\ \A n \in Nodes :
               LET b == pre.heap[n]
                   a == heap[n]
               IN /\ \A i \in 1..Len(Links) : LinkOf(a, Links[i]) = LinkOf(b, Links[i])
                  /\ a.jmp = b.jmp /\ a.size = b.size /\ a.op = b.op
                  /\ IsArrayKind(b.op) => a.length = b.length
                  /\ n \notin WalkSet(pre.heap, last.a) => a = b
                  /\ (n \in WalkSet(pre.heap, last.a) /\ HasRegisterLength(b.op)
                        /\ b.length > 0) => a.length = b.length - uintptrSize

\* The second re-index of a graph with an array element in its walk.
C10_Witness ==
    /\ Reindexed
    /\ nOps = 2
    /\ \E n \in WalkSet(pre.heap, last.a) :
           /\ heap[n].op = "opArrayElem"
           /\ heap[n].length \in ArrayLens
           /\ heap[n].idx # pre.heap[n].idx

(* ------------------------------- splice ------------------------------- *)

Spliced == last.kind = "linkPrevToNextField"

\* The nodes of a walk, the terminal node included.
PathSet(h, c) == LET p == Path(h, c, Len(h)) IN {p[i] : i \in 1..Len(p)}

\* cur lies on the walk from prev, which reaches the terminal node.
SameChain == Terminates(pre.heap, last.a) /\ last.b \in WalkSet(pre.heap, last.a)

\* C5. Splice correctness: for fields a and b of one chain, b on the walk
\* from a, after linkPrevToNextField(a, b) the walk from a reaches the
\* terminal node without visiting b, and a.nextField is what b.nextField was.
C5_SpliceSkipsCurrent ==
    (Spliced /\ SameChain) =>
        /\ Terminates(heap, last.a)
        /\ last.b \notin PathSet(heap, last.a)
        /\ heap[last.a].nextField = pre.heap[last.b].nextField

\* A splice in which a's own value nodes lie between a and b, and b has a
\* next field.
C5_Witness ==
    /\ Spliced
    /\ SameChain
    /\ pre.heap[last.a].next # last.b
    /\ pre.heap[last.b].nextField # Nil
    /\ heap[last.a].nextField = pre.heap[last.b].nextField
    /\ heap # pre.heap

\* The nodes of cur's own walk before its next field.
RECURSIVE Before(_, _, _)
Before(h, c, t) ==
    IF c = t \/ h[c].op = "opEnd" THEN {} ELSE {c} \cup Before(h, Fallthrough(h, c), t)

\* C9. Splice bypasses the skipped field entirely: after
\* linkPrevToNextField(previous, current) the walk from previous reaches the
\* node current.nextField pointed to without visiting current or any node
\* that lay between current and that node on current's own walk.
C9_SpliceBypassesValues ==
    (/\ Spliced
     /\ SameChain
     /\ pre.heap[last.b].nextField \in PathSet(pre.heap, last.b)) =>
        /\ pre.heap[last.b].nextField \in PathSet(heap, last.a)
        /\ PathSet(heap, last.a)
               \cap Before(pre.heap, last.b, pre.heap[last.b].nextField) = {}

(* ---------------------------- constructors ---------------------------- *)

\* The constructors that link the node they return to a terminal node of
\* its own, and those that return a node for the compiler to link.
Terminated == {"newOpCode", "newMapEndCode", "newInterfaceCode", "newRecursiveCode"}

Unlinked ==
    {"newSliceHeaderCode", "newSliceElemCode", "newArrayHeaderCode", "newArrayElemCode",
     "newMapHeaderCode", "newMapKeyCode", "newMapValueCode"}

IsTerminal(n) == n.op = "opEnd" /\ n.next = Nil

\* C6 as stated. Termination of constructor graphs: the walk from the node
\* returned by any of the eleven constructors reaches a terminal node
\* without following a nil link.
C6_EveryConstructorTerminates ==
    last.kind \in Terminated \cup Unlinked =>
        /\ Terminates(heap, last.ret)
        /\ LET p == Path(heap, last.ret, Len(heap)) IN IsTerminal(heap[p[Len(p)]])

\* C6. Termination of constructor graphs: the node returned by newOpCode,
\* newMapEndCode, newInterfaceCode and newRecursiveCode has as its next a
\* terminal node of its own (op End, next nil), so its walk ends after one
\* step; the node returned by a header, element, key or value constructor
\* has all six links nil, and its walk meets a nil link at once.
C6_LinkedConstructorsTerminate ==
    /\ last.kind \in Terminated =>
           /\ Terminates(heap, last.ret)
           /\ Path(heap, last.ret, Len(heap)) = <<last.ret, heap[last.ret].next>>
           /\ heap[last.ret].next = last.ret - 1
           /\ IsTerminal(heap[heap[last.ret].next])
    /\ last.kind \in Unlinked =>
           /\ \A i \in 1..Len(Links) : LinkOf(heap[last.ret], Links[i]) = Nil
           /\ ~Terminates(heap, last.ret)

\* A map end was returned with its terminal node while the map's header,
\* returned before it, still has no link.
C6_Witness ==
    /\ last.kind = "newMapEndCode"
    /\ heap[last.ret].op = "opMapEnd"
    /\ IsTerminal(heap[Fallthrough(heap, last.ret)])
    /\ Fallthrough(heap, last.a) = Nil
    /\ ~Terminates(heap, last.a)

\* The constructors that take fresh slots from the counter, and the slots
\* the node they return was given.
Allocating ==
    {"newSliceHeaderCode", "newArrayHeaderCode", "newMapHeaderCode", "newMapEndCode",
     "newInterfaceCode", "newRecursiveCode"}

Assigned(n) ==
    CASE n.op = "opSliceHead" -> {n.idx, n.elemIdx, n.length}
      [] n.op = "opArrayHead" -> {n.idx, n.elemIdx}
      [] n.op \in {"opMapHead", "opMapHeadLoad"} -> {n.idx, n.elemIdx, n.length, n.mapIter}
      [] n.op = "opMapEnd" -> {n.mapPos, n.idx}
      [] OTHER -> {n.idx}

Consumes(kind) ==
    CASE kind = "newSliceHeaderCode" -> 3
      [] kind = "newArrayHeaderCode" -> 2
      [] kind = "newMapHeaderCode" -> 4
      [] kind = "newMapEndCode" -> 2
      [] OTHER -> 1

\* C8 as stated. Fresh slot allocation: when an allocating constructor
\* returns, the counter has moved past every slot it assigned.
C8_CounterPastAssignedSlots ==
    last.kind \in Allocating =>
        \A s \in Assigned(heap[last.ret]) : s < opcodeOffset(ctx.ptrIndex)

\* C8. Fresh slot allocation: an allocating constructor assigns the
\* consecutive slots from the counter's value at the call to its value at
\* the return, both included (3 for a slice header, 2 for an array header,
\* 4 for a map header, 2 for a map end, 1 for an interface and for a
\* recursive call), so that the counter is left at the last slot assigned;
\* no node holds a slot beyond the counter, after the caller's incIndex
\* every slot of every node is below the counter, and the value slots of
\* the nodes are non-decreasing in the order of their allocation.
C8_CounterAtLastAssignedSlot ==
    /\ last.kind \in Allocating =>
           /\ Assigned(heap[last.ret])
                  = {opcodeOffset(p) : p \in pre.ctx.ptrIndex..ctx.ptrIndex}
           /\ Cardinality(Assigned(heap[last.ret])) = Consumes(last.kind)
           /\ ctx.ptrIndex = pre.ctx.ptrIndex + Consumes(last.kind) - 1
    /\ \A n \in Nodes : \A s \in Slots(heap[n]) : s <= opcodeOffset(ctx.ptrIndex)
    /\ last.kind = "incIndex" =>
           \A n \in Nodes : \A s \in Slots(heap[n]) : s < opcodeOffset(ctx.ptrIndex)
    /\ \A m, n \in Nodes : m < n => heap[m].idx <= heap[n].idx

\* A map end returned after the caller's incIndex following the map header:
\* its two slots lie above the header's four, the counter is at the second.
C8_Witness ==
    /\ last.kind = "newMapEndCode"
    /\ heap[last.ret].idx = opcodeOffset(ctx.ptrIndex)
    /\ heap[last.ret].mapPos = opcodeOffset(pre.ctx.ptrIndex)
    /\ Assigned(heap[last.ret]) \cap Assigned(heap[last.a]) = {}
    /\ Cardinality(Assigned(heap[last.a])) = 4

=============================================================================
